---- MODULE Spec2Model ----
(***************************************************************************)
(* tmuxg: provisioning of a tmux session from a YAML session document.     *)
(*                                                                         *)
(* The model follows main.go: run() commits the document's environment to  *)
(* the process environment, runs the setup script from a temporary file,   *)
(* creates the session, propagates the environment, creates the windows    *)
(* and sends their keystrokes, selects the focused window and attaches.    *)
(* Every exec.Command may fail.  Two invocations of the tool (Procs) run   *)
(* against the tmux servers of one machine.                                *)
(***************************************************************************)
EXTENDS Integers, Sequences, FiniteSets, TLC

\* ---------------------------------------------------------------- bounds
MaxWin == 3

\* ------------------------------------------------ strings and expansion
\* A string with variable references is a sequence of tokens: a literal
\* piece <<"lit", x>> or a reference <<"ref", K>> (the text $K).
Lit(x) == <<"lit", x>>
Ref(k) == <<"ref", k>>

VarNames == {"A", "B"}

\* os.ExpandEnv(v) against the process environment e: a reference is
\* replaced by the current value of the variable (empty when unset).
RECURSIVE ExpandEnv(_, _)
ExpandEnv(v, e) ==
  IF v = <<>> THEN <<>>
  ELSE (IF Head(v)[1] = "ref" THEN e[Head(v)[2]] ELSE <<Head(v)>>)
       \o ExpandEnv(Tail(v), e)

\* strings.TrimSpace on a sequence of characters.
RECURSIVE TrimLeft(_)
TrimLeft(s) ==
  IF s # <<>> /\ Head(s) = " " THEN TrimLeft(Tail(s)) ELSE s

RECURSIVE TrimRight(_)
TrimRight(s) ==
  IF s # <<>> /\ s[Len(s)] = " " THEN TrimRight(SubSeq(s, 1, Len(s) - 1)) ELSE s

TrimSpace(s) == TrimRight(TrimLeft(s))

\* ------------------------------------------------------------ documents
\* type window
window(n, c, d, k) == [name |-> n, command |-> c, cwd |-> d, keystrokes |-> k]

WindowPool ==
  { window("a", <<Lit("vim")>>, <<>>, <<"k1", "k2">>),
    window("b", <<Ref("A"), Lit("top")>>, <<Lit("w")>>, <<>>),
    window("", <<>>, <<Ref("A")>>, <<"k3">>) }

WinSeqs == UNION { [1..n -> WindowPool] : n \in 0..MaxWin }

\* the environment mapping of a document: variable name -> raw value
EnvPool ==
  { [k \in {} |-> <<>>],
    [k \in {"A"} |-> <<Lit("x")>>],
    [k \in {"A"} |-> <<Ref("A"), Lit("x")>>],
    [k \in {"A", "B"} |-> IF k = "A" THEN <<Ref("A"), Lit("x")>> ELSE <<Lit("y")>>],
    [k \in {"A", "B"} |-> IF k = "A" THEN <<Ref("B"), Lit("x")>> ELSE <<Lit("y")>>] }

Scripts == { <<>>, <<" ", "e", " ">> }
Cwds == { <<Lit("d")>>, <<Ref("A"), Lit("d")>> }
Focuses == { "", "a", "b", "zz" }
Names == { "s1", "s2" }
Procs == { 1, 2 }
NameOf(p) == IF p = 1 THEN "s1" ELSE "s2"

\* type session
session(nm, sc, en, d, ws, f) ==
  [name |-> nm, setupScript |-> sc, environment |-> en, cwd |-> d,
   windows |-> ws, focus |-> f]

Docs(nm) ==
  { session(nm, sc, en, d, ws, f) :
      sc \in Scripts, en \in EnvPool, d \in Cwds, ws \in WinSeqs, f \in Focuses }

\* newSession: yaml.Unmarshal(contents, &s); return &s, nil.  The decoded
\* fields are the document's; an absent field is the empty string.
newSession(d) == d

\* the documents two concurrent invocations are started with
PairDocs(nm) ==
  { session(nm, sc, [k \in {"A"} |-> <<Ref("A"), Lit("x")>>], <<Ref("A"), Lit("d")>>,
            ws, "b") :
      sc \in Scripts,
      ws \in { <<>>,
               << window("a", <<Lit("vim")>>, <<>>, <<"k1", "k2">>),
                  window("b", <<Ref("A"), Lit("top")>>, <<Lit("w")>>, <<"k3">>) >> } }

\* the environment a process is started with
Environ0 == [k \in VarNames |-> IF k = "A" THEN <<Lit("p")>> ELSE <<>>]

\* ------------------------------------------------------------- state
VARIABLES
  doc,     \* doc[p]: the decoded session document of invocation p
  pc,      \* pc[p]: position of invocation p in run()
  environ, \* environ[p]: the process environment (os.Setenv / os.Getenv)
  todo,    \* todo[p]: keys the current range over Environment has not visited
  i,       \* i[p]: index of the window loop of run()
  focus,   \* focus[p]: run()'s local variable focus
  tmp,     \* tmp[p]: the temporary setup-script file
  trace,   \* trace[p]: the external processes invocation p has run, in order
  err,     \* err[p]: the error run() returned ("" for nil)
  exit,    \* exit[p]: exit code of the process (-1 while running)
  srv,     \* srv[l]: the tmux server behind socket label l
  fs,      \* the command-line argument and the files locateSession looks at
  located  \* what locateSession returned

vars == <<fs, located, doc, pc, environ, todo, i, focus, tmp, trace, err, exit, srv>>

Labels == Names \cup {"default"}

\* exit codes an external command may end with
ExitCodes == {0, 1}
AttachCodes == {0, 1, 2}

NoFile == [exists |-> FALSE, open |-> FALSE, content |-> <<>>, mode |-> 0]

NoServer ==
  [recent |-> "", cur |-> [n \in Names |-> 0], wins |-> {}, typed |-> {},
   env |-> {}]

\* one record per exec.Command(...).Run(); the fields a command does not
\* have stay empty
NoCmd ==
  [cmd |-> "", server |-> "", target |-> <<>>, dir |-> <<>>, c |-> <<>>,
   command |-> <<>>, keys |-> <<>>, key |-> "", val |-> <<>>, win |-> 0,
   rc |-> 0]

\* ------------------------------------------------------ session.tmux
ServerLabelDefault(s) == "default"

\* tmux -L s.Name args... : the server socket a command is sent to
ServerLabel(s) == s.name

\* c.Dir = os.ExpandEnv(s.Cwd)
tmux(s, e, args, rc) ==
  [args EXCEPT !.server = ServerLabel(s), !.dir = ExpandEnv(s.cwd, e), !.rc = rc]

\* fmt.Sprintf("%s:%d", s.Name, i)
Target(s, n) == <<s.name, n>>

\* --------------------------------------------- the tmux server's side
\* The window a command without -t acts on: the current window of the
\* server's most recent session.
CurrentTarget(sv) == <<sv.recent, sv.cur[sv.recent]>>

\* effect of a command that exited 0 on the server it was sent to
Apply(sv, c, p) ==
  CASE c.cmd = "new-session" ->
         [sv EXCEPT !.recent = c.target[1],
                    !.cur[c.target[1]] = 0,
                    !.wins = @ \cup {[sess |-> c.target[1], idx |-> 0,
                                      dir |-> c.dir, command |-> c.command,
                                      by |-> p]}]
    [] c.cmd = "set-environment" ->
         [sv EXCEPT !.env = @ \cup {[sess |-> sv.recent, key |-> c.key,
                                     val |-> c.val, by |-> p]}]
    [] c.cmd = "new-window" ->
         [sv EXCEPT !.wins = @ \cup {[sess |-> c.target[1], idx |-> c.target[2],
                                      dir |-> c.c, command |-> c.command,
                                      by |-> p]}]
    [] c.cmd = "send-keys" ->
         [sv EXCEPT !.typed = @ \cup
            {[sess |-> (IF c.target = <<>> THEN CurrentTarget(sv) ELSE c.target)[1],
              idx |-> (IF c.target = <<>> THEN CurrentTarget(sv) ELSE c.target)[2],
              keys |-> c.keys, from |-> c.win, by |-> p]}]
    [] c.cmd = "select-window" ->
         [sv EXCEPT !.cur[c.target[1]] = c.target[2]]
    [] OTHER -> sv

\* run the external command c: it is logged, and changes its server when
\* it succeeds
Exec(p, c) ==
  /\ trace' = [trace EXCEPT ![p] = Append(@, c)]
  /\ srv' = IF c.rc = 0 /\ c.server \in Labels
            THEN [srv EXCEPT ![c.server] = Apply(@, c, p)]
            ELSE srv

\* run() returns e; die() exits with 1 on an error
Return(p, e, code) ==
  /\ pc' = [pc EXCEPT ![p] = "done"]
  /\ err' = [err EXCEPT ![p] = e]
  /\ exit' = [exit EXCEPT ![p] = code]

Goto(p, l) ==
  /\ pc' = [pc EXCEPT ![p] = l]
  /\ UNCHANGED <<err, exit>>

\* --------------------------------------------------------------- run
runSetenvRaw(p) ==
  /\ pc[p] = "env"
  /\ \E k \in todo[p] :
       /\ environ' = [environ EXCEPT ![p][k] = doc[p].environment[k]]
       /\ todo' = [todo EXCEPT ![p] = @ \ {k}]
  /\ UNCHANGED <<fs, located, doc, pc, i, focus, tmp, trace, err, exit, srv>>

\* for k, v := range session.Environment { os.Setenv(k, os.ExpandEnv(v)) }
\* A Go map is ranged over in an unspecified order.
runSetenv(p) ==
  /\ pc[p] = "env"
  /\ \E k \in todo[p] :
       /\ environ' = [environ EXCEPT ![p][k] =
                        ExpandEnv(doc[p].environment[k], environ[p])]
       /\ todo' = [todo EXCEPT ![p] = @ \ {k}]
  /\ UNCHANGED <<fs, located, doc, pc, i, focus, tmp, trace, err, exit, srv>>

\* ------------------------------------------------ session.setupScript
NoSetupScriptUnlessCwdIsNew(s) == s.setupScript = <<>> \/ s.cwd = <<Lit("d")>>

NoSetupScriptOrWindows(s) == s.setupScript = <<>> \/ s.windows = <<>>

\* if s.SetupScript == "" { return nil }
NoSetupScript(s) == s.setupScript = <<>>

DeferredCloseOnly(f) == [f EXCEPT !.open = FALSE]

\* defer os.Remove(f.Name()); defer f.Close()
Deferred(f) == [f EXCEPT !.open = FALSE, !.exists = FALSE]

\* the call of session.setupScript, up to ioutil.TempFile
setupScript(p) ==
  /\ pc[p] = "env"
  /\ todo[p] = {}
  /\ \/ /\ NoSetupScript(doc[p])
        /\ Goto(p, "create")
        /\ UNCHANGED tmp
     \/ /\ ~NoSetupScript(doc[p])
        /\ tmp' = [tmp EXCEPT ![p] = [NoFile EXCEPT !.exists = TRUE, !.open = TRUE,
                                                   !.mode = 600]]
        /\ Goto(p, "ss_write")
     \/ /\ ~NoSetupScript(doc[p])
        /\ Return(p, "failed to create temporary file for script", 1)
        /\ UNCHANGED tmp
  /\ UNCHANGED <<fs, located, doc, environ, todo, i, focus, trace, srv>>

\* fmt.Fprintf(f, "%s", strings.TrimSpace(s.SetupScript))
setupScriptWrite(p) ==
  /\ pc[p] = "ss_write"
  /\ \/ /\ tmp' = [tmp EXCEPT ![p].content = TrimSpace(doc[p].setupScript)]
        /\ Goto(p, "ss_close")
     \/ /\ tmp' = [tmp EXCEPT ![p] = Deferred(@)]
        /\ Return(p, "failed to write temporary script file", 1)
  /\ UNCHANGED <<fs, located, doc, environ, todo, i, focus, trace, srv>>

\* err = f.Close()
setupScriptClose(p) ==
  /\ pc[p] = "ss_close"
  /\ \/ /\ tmp' = [tmp EXCEPT ![p].open = FALSE]
        /\ Goto(p, "ss_chmod")
     \/ /\ tmp' = [tmp EXCEPT ![p] = Deferred(@)]
        /\ Return(p, "error closing temporary script file", 1)
  /\ UNCHANGED <<fs, located, doc, environ, todo, i, focus, trace, srv>>

\* err = os.Chmod(f.Name(), 0700)
setupScriptChmod(p) ==
  /\ pc[p] = "ss_chmod"
  /\ \/ /\ tmp' = [tmp EXCEPT ![p].mode = 700]
        /\ Goto(p, "ss_run")
     \/ /\ tmp' = [tmp EXCEPT ![p] = Deferred(@)]
        /\ Return(p, "error setting temporary script executable", 1)
  /\ UNCHANGED <<fs, located, doc, environ, todo, i, focus, trace, srv>>

\* c := exec.Command(f.Name()); return errgo.Mask(c.Run())
\* and, in run(), the return on a setup script error
setupScriptRun(p) ==
  /\ pc[p] = "ss_run"
  /\ \E rc \in ExitCodes :
       /\ Exec(p, [NoCmd EXCEPT !.cmd = "setup-script",
                                !.command = tmp[p].content, !.rc = rc])
       /\ IF rc = 0 THEN Goto(p, "create")
                    ELSE Return(p, "failed to execute setup script", 1)
  /\ tmp' = [tmp EXCEPT ![p] = Deferred(@)]
  /\ UNCHANGED <<fs, located, doc, environ, todo, i, focus>>

\* ------------------------------------------------------ session.create
\* if len(s.Windows) == 0
NoWindows(s) == Len(s.windows) = 0

\* s.tmux("new-session", "-d", "-s", s.Name, os.ExpandEnv(s.Windows[0].Command))
create(p) ==
  /\ pc[p] = "create"
  /\ IF NoWindows(doc[p])
     THEN /\ Return(p, "no windows configured for this session!", 1)
          /\ UNCHANGED <<trace, srv, todo>>
     ELSE \E rc \in ExitCodes :
            /\ Exec(p, tmux(doc[p], environ[p],
                            [NoCmd EXCEPT !.cmd = "new-session",
                                          !.target = <<doc[p].name>>,
                                          !.command = ExpandEnv(doc[p].windows[1].command,
                                                                environ[p])],
                            rc))
            /\ IF rc = 0
               THEN /\ Goto(p, "setenv")
                    /\ todo' = [todo EXCEPT ![p] = DOMAIN doc[p].environment]
               ELSE /\ Return(p, "failed to start tmux session", 1)
                    /\ UNCHANGED todo
  /\ UNCHANGED <<fs, located, doc, environ, i, focus, tmp>>

\* the set-environment policy of create(): if err != nil { return ... }
SetEnvironmentFatalWarn(rc) == FALSE

SetEnvironmentFatal(rc) == rc # 0

\* for k, v := range s.Environment { s.tmux("set-environment", k, os.ExpandEnv(v)) }
createSetEnvironment(p) ==
  /\ pc[p] = "setenv"
  /\ \E k \in todo[p], rc \in ExitCodes :
       /\ Exec(p, tmux(doc[p], environ[p],
                       [NoCmd EXCEPT !.cmd = "set-environment", !.key = k,
                                     !.val = ExpandEnv(doc[p].environment[k],
                                                       environ[p])],
                       rc))
       /\ IF ~SetEnvironmentFatal(rc)
          THEN /\ Goto(p, "setenv")
               /\ todo' = [todo EXCEPT ![p] = @ \ {k}]
          ELSE /\ Return(p, "failed to set environment variable", 1)
               /\ UNCHANGED todo
  /\ UNCHANGED <<fs, located, doc, environ, i, focus, tmp>>

NeedsCreateWindowAll(n) == n >= 0

\* if i > 0 { err = session.createWindow(i, &window) }
NeedsCreateWindow(n) == n > 0

LoopAtKeysOnly(s, n) ==
  IF n >= Len(s.windows) THEN "focus" ELSE "keys"

\* where the window loop of run() goes for index n
LoopAt(s, n) ==
  IF n >= Len(s.windows) THEN "focus"
  ELSE IF NeedsCreateWindow(n) THEN "window" ELSE "keys"

createReturnEarly(p) ==
  /\ pc[p] = "setenv"
  /\ i' = [i EXCEPT ![p] = 0]
  /\ focus' = [focus EXCEPT ![p] = 0]
  /\ Goto(p, LoopAt(doc[p], 0))
  /\ UNCHANGED <<fs, located, doc, environ, todo, tmp, trace, srv>>

\* create returns nil; var focus int; the window loop starts
createReturn(p) ==
  /\ pc[p] = "setenv"
  /\ todo[p] = {}
  /\ i' = [i EXCEPT ![p] = 0]
  /\ focus' = [focus EXCEPT ![p] = 0]
  /\ Goto(p, LoopAt(doc[p], 0))
  /\ UNCHANGED <<fs, located, doc, environ, todo, tmp, trace, srv>>

\* ------------------------------------------------ session.createWindow
\* cwd := w.Cwd; if cwd == "" { cwd = s.Cwd }; cwd = os.ExpandEnv(cwd)
WindowCwd(s, w, e) == ExpandEnv(IF w.cwd = <<>> THEN s.cwd ELSE w.cwd, e)

createWindow(p) ==
  /\ pc[p] = "window"
  /\ LET w == doc[p].windows[i[p] + 1] IN
     \E rc \in ExitCodes :
       /\ Exec(p, tmux(doc[p], environ[p],
                       [NoCmd EXCEPT !.cmd = "new-window",
                                     !.target = Target(doc[p], i[p]),
                                     !.c = WindowCwd(doc[p], w, environ[p]),
                                     !.command = ExpandEnv(w.command, environ[p]),
                                     !.win = i[p]],
                       rc))
       /\ IF rc = 0 THEN Goto(p, "keys")
                    ELSE Return(p, "failed to create window", 1)
  /\ UNCHANGED <<fs, located, doc, environ, todo, i, focus, tmp>>

\* ---------------------------------------------------- session.sendKeys
\* s.tmux(append([]string{"send-keys"}, w.Keystrokes...)...)
SendKeysTarget(s, n) == <<>>

NextFocusOneBased(s, w, n, f) == IF s.focus = w.name THEN n + 1 ELSE f

\* if session.Focus == window.Name { focus = i }
NextFocus(s, w, n, f) == IF s.focus = w.name THEN n ELSE f

\* sendKeys for window i, then the rest of the loop body
sendKeys(p) ==
  /\ pc[p] = "keys"
  /\ LET w == doc[p].windows[i[p] + 1]
         next == /\ focus' = [focus EXCEPT ![p] = NextFocus(doc[p], w, i[p], @)]
                 /\ i' = [i EXCEPT ![p] = @ + 1]
                 /\ Goto(p, LoopAt(doc[p], i[p] + 1))
     IN
     IF Len(w.keystrokes) > 0
     THEN \E rc \in ExitCodes :
            /\ Exec(p, tmux(doc[p], environ[p],
                            [NoCmd EXCEPT !.cmd = "send-keys",
                                          !.target = SendKeysTarget(doc[p], i[p]),
                                          !.keys = w.keystrokes,
                                          !.win = i[p]],
                            rc))
            /\ IF rc = 0 THEN next
                         ELSE /\ Return(p, "failed to send keystrokes to window", 1)
                              /\ UNCHANGED <<i, focus>>
     ELSE /\ next
          /\ UNCHANGED <<trace, srv>>
  /\ UNCHANGED <<fs, located, doc, environ, todo, tmp>>

\* ------------------------------------------------------- session.focus
sessionFocus(p) ==
  /\ pc[p] = "focus"
  /\ \E rc \in ExitCodes :
       /\ Exec(p, tmux(doc[p], environ[p],
                       [NoCmd EXCEPT !.cmd = "select-window",
                                     !.target = Target(doc[p], focus[p])],
                       rc))
       /\ IF rc = 0 THEN Goto(p, "attach")
                    ELSE Return(p, "failed to set window focus", 1)
  /\ UNCHANGED <<fs, located, doc, environ, todo, i, focus, tmp>>

dieSilently(e) == 0

\* die(): os.Exit(1) when run() returned an error
die(e) == IF e = "" THEN 0 ELSE 1

\* err = session.tmux("attach", "-t", session.Name); return errgo.Mask(err)
attach(p) ==
  /\ pc[p] = "attach"
  /\ \E rc \in AttachCodes :
       /\ Exec(p, tmux(doc[p], environ[p],
                       [NoCmd EXCEPT !.cmd = "attach", !.target = <<doc[p].name>>],
                       rc))
       /\ LET e == IF rc = 0 THEN "" ELSE "exit status" IN Return(p, e, die(e))
  /\ UNCHANGED <<fs, located, doc, environ, todo, i, focus, tmp>>

\* ------------------------------------------------------ locateSession
\* what os.Stat can report for a path
StatKinds == {"file", "dir", "absent", "error"}

Home == << <<"home">> >>

\* a path is a sequence of components; filepath.Join appends
Join(a, b) == a \o b

\* the argument is a bare name, XDG_CONFIG_HOME is empty or a directory, and
\* each path locateSession can stat is a file, a directory, absent, or
\* cannot be examined
FsInputs ==
  [arg : {"foo"}, argStat : StatKinds, xdg : {<<>>, << <<"xdg">> >>},
   mkdirOk : BOOLEAN, xdgConf : StatKinds, homeConf : StatKinds]

\* os.Stat(path)
Stat(f, path) ==
  IF path = << <<f.arg>> >> THEN f.argStat
  ELSE IF path = << <<"xdg">>, <<"tmuxg">>, <<f.arg, ".yaml">> >> THEN f.xdgConf
  ELSE IF path = << <<"home">>, <<".config">>, <<"tmuxg">>, <<f.arg, ".yaml">> >>
       THEN f.homeConf
  ELSE "absent"

\* configDir := os.Getenv("XDG_CONFIG_HOME"); if configDir == "" { ... }
ConfigDir(f) == IF f.xdg = <<>> THEN Join(Home, << <<".config">> >>) ELSE f.xdg

Located(path, e) == [state |-> "done", path |-> path, err |-> e]

\* func locateSession(name string) (string, error)
LocateSession(f) ==
  LET name == << <<f.arg>> >>
      tmuxgConfigDir == Join(ConfigDir(f), << <<"tmuxg">> >>)
      path == Join(tmuxgConfigDir, << <<f.arg, ".yaml">> >>)
  IN
  IF Stat(f, name) \in {"file", "dir"} THEN Located(name, "")
  ELSE IF Stat(f, name) # "absent"
       THEN Located(<<>>, "failed to open session file")
  ELSE IF ~f.mkdirOk THEN Located(<<>>, "failed to create config directory")
  ELSE IF Stat(f, path) \notin {"file", "dir"}
       THEN Located(<<>>, "failed to resolve session")
  ELSE Located(path, "")

\* name, err := locateSession(os.Args[1])
locateSession ==
  /\ located.state = "pending"
  /\ located' = LocateSession(fs)
  /\ UNCHANGED <<fs, doc, pc, environ, todo, i, focus, tmp, trace, err, exit, srv>>

\* the argument names an existing session file
FsGiven ==
  [arg |-> "foo", argStat |-> "file", xdg |-> <<>>, mkdirOk |-> TRUE,
   xdgConf |-> "absent", homeConf |-> "absent"]

\* ------------------------------------------------------ specifications
InitProc ==
  /\ environ = [p \in Procs |-> Environ0]
  /\ i = [p \in Procs |-> 0]
  /\ focus = [p \in Procs |-> 0]
  /\ tmp = [p \in Procs |-> NoFile]
  /\ trace = [p \in Procs |-> <<>>]
  /\ err = [p \in Procs |-> ""]
  /\ exit = [p \in Procs |-> -1]
  /\ srv = [l \in Labels |-> NoServer]
  /\ fs = FsGiven
  /\ located = LocateSession(FsGiven)

\* one invocation of the tool, on any document
Init ==
  /\ \E d \in Docs(NameOf(1)) :
       /\ doc = [p \in Procs |-> newSession([d EXCEPT !.name = NameOf(p)])]
       /\ todo = [p \in Procs |-> IF p = 1 THEN DOMAIN d.environment ELSE {}]
       /\ InitProc
  /\ pc = [p \in Procs |-> IF p = 1 THEN "env" ELSE "off"]

\* two invocations with different session names, started together
InitTwo ==
  /\ \E d \in PairDocs(NameOf(1)) :
       /\ doc = [p \in Procs |-> newSession([d EXCEPT !.name = NameOf(p)])]
       /\ todo = [p \in Procs |-> DOMAIN d.environment]
       /\ InitProc
  /\ pc = [p \in Procs |-> "env"]

Step(p) ==
  \/ runSetenv(p)
  \/ setupScript(p)
  \/ setupScriptWrite(p)
  \/ setupScriptClose(p)
  \/ setupScriptChmod(p)
  \/ setupScriptRun(p)
  \/ create(p)
  \/ createSetEnvironment(p)
  \/ createReturn(p)
  \/ createWindow(p)
  \/ sendKeys(p)
  \/ sessionFocus(p)
  \/ attach(p)

Next == \E p \in Procs : Step(p)

Spec == Init /\ [][Next]_vars

SpecTwo == InitTwo /\ [][Next]_vars

\* the loader alone, on every argument and file system it distinguishes
InitLocate ==
  /\ fs \in FsInputs
  /\ located = [state |-> "pending", path |-> <<>>, err |-> ""]
  /\ doc = [p \in Procs |->
              newSession(session(NameOf(p), <<>>, [k \in {} |-> <<>>], <<Lit("d")>>,
                                 <<>>, ""))]
  /\ todo = [p \in Procs |-> {}]
  /\ pc = [p \in Procs |-> "off"]
  /\ environ = [p \in Procs |-> Environ0]
  /\ i = [p \in Procs |-> 0]
  /\ focus = [p \in Procs |-> 0]
  /\ tmp = [p \in Procs |-> NoFile]
  /\ trace = [p \in Procs |-> <<>>]
  /\ err = [p \in Procs |-> ""]
  /\ exit = [p \in Procs |-> -1]
  /\ srv = [l \in Labels |-> NoServer]

NextLocate == locateSession

SpecLocate == InitLocate /\ [][NextLocate]_vars

\* ------------------------------------------------------------ claims
IsTmux(c) == c.cmd # "setup-script"

\* the multiplexer commands of invocation p, in the order issued
TmuxTrace(p) == SelectSeq(trace[p], IsTmux)

IsWindowCreation(c) == c.cmd \in {"new-session", "new-window"}
IsNewWindow(c) == c.cmd = "new-window"
IsSelectWindow(c) == c.cmd = "select-window"
IsScriptRun(c) == c.cmd = "setup-script"

Finished(p) == pc[p] = "done"
NoFailure(p) == \A j \in 1..Len(trace[p]) : trace[p][j].rc = 0
Succeeded(p) == Finished(p) /\ err[p] = ""
NWin(p) == Len(doc[p].windows)

\* C1: a run on n >= 1 windows in which nothing fails issues exactly one
\* new-session, then exactly n-1 new-window calls, for the indices
\* 1, 2, ..., n-1 in this order, each with the command of the window at that
\* position of the document.
C1_SessionThenWindows ==
  \A p \in Procs :
    (Succeeded(p) /\ NoFailure(p) /\ NWin(p) >= 1) =>
      LET cs == SelectSeq(trace[p], IsWindowCreation) IN
        /\ Len(cs) = NWin(p)
        /\ cs[1].cmd = "new-session"
        /\ \A j \in 2..NWin(p) :
             /\ cs[j].cmd = "new-window"
             /\ cs[j].target = <<doc[p].name, j - 1>>
             /\ cs[j].command = ExpandEnv(doc[p].windows[j].command, environ[p])

C1_Witness ==
  \E p \in Procs :
    /\ Succeeded(p) /\ NoFailure(p) /\ NWin(p) = 3
    /\ doc[p].windows[2] # doc[p].windows[3]

\* C2 (as claimed): with zero windows the run fails with the no-windows
\* error and nothing external, the setup script included, was run.
C2_NothingRunBeforeNoWindows ==
  \A p \in Procs :
    NoWindows(doc[p]) =>
      /\ trace[p] = <<>>
      /\ Finished(p) => err[p] = "no windows configured for this session!"

\* C2 (amended): with zero windows no multiplexer command is ever run and
\* the run fails; a non-empty setup script is run first, once its temporary
\* file is ready, and the error is the no-windows error exactly when the
\* setup step returned without error.
C2_NoWindowsAfterSetup ==
  \A p \in Procs :
    NoWindows(doc[p]) =>
      /\ TmuxTrace(p) = <<>>
      /\ Finished(p) => exit[p] = 1
      /\ (Finished(p) /\ doc[p].setupScript = <<>>) =>
            /\ trace[p] = <<>>
            /\ err[p] = "no windows configured for this session!"
      /\ (Finished(p) /\ doc[p].setupScript # <<>>) =>
            \/ /\ err[p] = "no windows configured for this session!"
               /\ Len(trace[p]) = 1 /\ trace[p][1].cmd = "setup-script"
               /\ trace[p][1].rc = 0
            \/ /\ err[p] = "failed to execute setup script"
               /\ Len(trace[p]) = 1 /\ trace[p][1].cmd = "setup-script"
               /\ trace[p][1].rc # 0
            \/ /\ err[p] \in {"failed to create temporary file for script",
                              "failed to write temporary script file",
                              "error closing temporary script file",
                              "error setting temporary script executable"}
               /\ trace[p] = <<>>

C2_Witness ==
  \E p \in Procs :
    /\ NoWindows(doc[p]) /\ Finished(p)
    /\ err[p] = "no windows configured for this session!"
    /\ Len(trace[p]) = 1

\* C3: every send-keys issued for window i acts on <name>:i: the keystrokes
\* of window i are typed into window i of the session and into no other
\* window.
C3_KeysReachTheirWindow ==
  \A p \in Procs :
    \A l \in Labels : \A t \in srv[l].typed :
      t.by = p => (t.sess = doc[p].name /\ t.idx = t.from)

\* C4 (as claimed): the phases never interleave: new-session, the
\* set-environment calls, the new-window calls, the send-keys calls,
\* select-window, attach.
Phase(c) ==
  CASE c.cmd = "new-session" -> 1
    [] c.cmd = "set-environment" -> 2
    [] c.cmd = "new-window" -> 3
    [] c.cmd = "send-keys" -> 4
    [] c.cmd = "select-window" -> 5
    [] c.cmd = "attach" -> 6
    [] OTHER -> 0

C4_PhasesInOrder ==
  \A p \in Procs :
    LET t == TmuxTrace(p) IN
      \A j \in 1..(Len(t) - 1) : Phase(t[j]) <= Phase(t[j + 1])

\* C4 (amended): new-session, the set-environment calls, then window by
\* window in ascending index order new-window (for an index above 0)
\* directly followed by that window's send-keys (when it has keystrokes),
\* then select-window, then attach.
Stage(c) ==
  CASE c.cmd = "new-session" -> 1
    [] c.cmd = "set-environment" -> 2
    [] c.cmd = "new-window" -> 3
    [] c.cmd = "send-keys" -> 3
    [] c.cmd = "select-window" -> 4
    [] c.cmd = "attach" -> 5
    [] OTHER -> 0

C4_WindowByWindow ==
  \A p \in Procs :
    LET t == TmuxTrace(p) IN
      /\ \A j \in 1..Len(t) :
           /\ Stage(t[j]) = 1 <=> j = 1
           /\ t[j].cmd = "new-window" => t[j].target = <<doc[p].name, t[j].win>>
           /\ (t[j].cmd = "send-keys" /\ t[j].win > 0) =>
                (t[j - 1].cmd = "new-window" /\ t[j - 1].win = t[j].win)
      /\ \A j \in 1..(Len(t) - 1) :
           /\ Stage(t[j]) <= Stage(t[j + 1])
           /\ Stage(t[j]) \in {4, 5} => Stage(t[j]) < Stage(t[j + 1])
           /\ (Stage(t[j]) = 3 /\ Stage(t[j + 1]) = 3) =>
                \/ t[j].win < t[j + 1].win
                \/ /\ t[j].win = t[j + 1].win
                   /\ t[j].cmd = "new-window" /\ t[j + 1].cmd = "send-keys"

C4_Witness ==
  \E p \in Procs :
    LET t == TmuxTrace(p) IN
      /\ Succeeded(p)
      /\ \E j \in 1..(Len(t) - 1) :
           t[j].cmd = "send-keys" /\ t[j + 1].cmd = "new-window"

\* C5: once an external command has exited with an error nothing further is
\* run: a failed command is the last one of its invocation, which has ended
\* with an error and a nonzero exit code.
C5_FailStop ==
  \A p \in Procs :
    \A j \in 1..Len(trace[p]) :
      trace[p][j].rc # 0 =>
        /\ j = Len(trace[p])
        /\ Finished(p)
        /\ err[p] # ""
        /\ exit[p] # 0

C5_Witness ==
  \E p \in Procs :
    /\ Finished(p)
    /\ Len(trace[p]) >= 3
    /\ trace[p][Len(trace[p])].cmd = "set-environment"
    /\ trace[p][Len(trace[p])].rc # 0

\* C6: at most one select-window is issued, and exactly one once the run
\* gets to attach; it comes after the session and every further window were
\* created; it targets <name>:i when window i is the only one named as
\* focus, and <name>:0 when no window is.
FocusMatches(s) == { k \in 1..Len(s.windows) : s.windows[k].name = s.focus }

C6_FocusResolution ==
  \A p \in Procs :
    LET t == trace[p]
        M == FocusMatches(doc[p])
    IN
      /\ Len(SelectSeq(t, IsSelectWindow)) <= 1
      /\ (pc[p] = "attach" \/ Succeeded(p)) => Len(SelectSeq(t, IsSelectWindow)) = 1
      /\ \A j \in 1..Len(t) :
           t[j].cmd = "select-window" =>
             /\ \A k \in 0..(NWin(p) - 1) :
                  \E m \in 1..(j - 1) :
                    /\ t[m].cmd = (IF k = 0 THEN "new-session" ELSE "new-window")
                    /\ t[m].win = k
                    /\ t[m].rc = 0
             /\ Cardinality(M) = 1 => t[j].target = <<doc[p].name, (CHOOSE k \in M : TRUE) - 1>>
             /\ M = {} => t[j].target = <<doc[p].name, 0>>

C6_Witness ==
  \E p \in Procs :
    /\ Succeeded(p)
    /\ NWin(p) = 3
    /\ FocusMatches(doc[p]) = {3}
    /\ \E j \in 1..Len(trace[p]) :
         trace[p][j].cmd = "select-window" /\ trace[p][j].target = <<doc[p].name, 2>>

\* C7: the temporary script file exists only while setupScript is between
\* ioutil.TempFile and its return; once setupScript has returned, by success
\* or by any of its errors, the file is gone.
InSetupScript(p) == pc[p] \in {"ss_write", "ss_close", "ss_chmod", "ss_run"}

C7_TempFileRemoved ==
  \A p \in Procs : ~InSetupScript(p) => (~tmp[p].exists /\ ~tmp[p].open)

C7_Witness ==
  \E p \in Procs :
    /\ Finished(p)
    /\ err[p] = "failed to execute setup script"
    /\ tmp[p].content = <<"e">>
    /\ tmp[p].mode = 700
    /\ ~tmp[p].exists

\* C8 (as claimed): a non-empty setup script is executed exactly once in
\* every invocation, after the environment loop has visited every entry and
\* before new-session; an empty one spawns nothing.
ScriptRuns(p) == Len(SelectSeq(trace[p], IsScriptRun))

TempFileErrors ==
  {"failed to create temporary file for script",
   "failed to write temporary script file",
   "error closing temporary script file",
   "error setting temporary script executable"}

ScriptRunsInPlace(p) ==
  /\ ScriptRuns(p) <= 1
  /\ InSetupScript(p) => (todo[p] = {} /\ trace[p] = <<>>)
  /\ ScriptRuns(p) = 1 => trace[p][1].cmd = "setup-script"
  /\ doc[p].setupScript = <<>> => ScriptRuns(p) = 0

C9_OwnServerOnly ==
  /\ \A p \in Procs : \A j \in 1..Len(trace[p]) :
       IsTmux(trace[p][j]) => trace[p][j].server = doc[p].name
  /\ \A l \in Labels :
       /\ \A w \in srv[l].wins : l = doc[w.by].name /\ w.sess = doc[w.by].name
       /\ \A t \in srv[l].typed : l = doc[t.by].name /\ t.sess = doc[t.by].name
       /\ \A v \in srv[l].env : l = doc[v.by].name /\ v.sess = doc[v.by].name
       /\ (srv[l] # NoServer) => (\E p \in Procs : doc[p].name = l /\ trace[p] # <<>>)

C9_Witness ==
  /\ doc[1].name # doc[2].name
  /\ pc[1] = "focus" /\ pc[2] = "window"
  /\ srv["s1"].typed # {} /\ srv["s2"].env # {}
  /\ srv["s1"].wins # {} /\ srv["s2"].wins # {}

\* C10 (as claimed): the expanded values that reach the multiplexer do not
\* depend on the order in which the environment mapping is ranged over:
\* they are the values of the run that commits the entries in the order
\* A, B.
RECURSIVE CommitInOrder(_, _, _)
CommitInOrder(raw, e, order) ==
  IF order = <<>> THEN e
  ELSE CommitInOrder(raw, [e EXCEPT ![Head(order)] = ExpandEnv(raw[Head(order)], e)],
                     Tail(order))

InMapping(raw) == LET In(k) == k \in DOMAIN raw IN SelectSeq(<<"A", "B">>, In)

ReferenceEnv(s) == CommitInOrder(s.environment, Environ0, InMapping(s.environment))

SameAsReferenceRun(p) ==
  LET s == doc[p]
      e == ReferenceEnv(s)
  IN \A j \in 1..Len(trace[p]) :
       LET c == trace[p][j]
           w == s.windows[c.win + 1]
       IN IsTmux(c) =>
            /\ c.dir = ExpandEnv(s.cwd, e)
            /\ c.cmd \in {"new-session", "new-window"} =>
                 c.command = ExpandEnv(w.command, e)
            /\ c.cmd = "new-window" =>
                 c.c = ExpandEnv(IF w.cwd = <<>> THEN s.cwd ELSE w.cwd, e)
            /\ c.cmd = "set-environment" =>
                 c.val = ExpandEnv(s.environment[c.key], e)

C10_OrderIndependent == \A p \in Procs : SameAsReferenceRun(p)

\* C10 (amended): the same, for a mapping none of whose values references a
\* different entry of the mapping (a value may reference its own key or a
\* variable outside the mapping).
NoSiblingReference(s) ==
  \A k \in DOMAIN s.environment :
    \A n \in 1..Len(s.environment[k]) :
      LET t == s.environment[k][n] IN
        t[1] = "ref" => (t[2] = k \/ t[2] \notin DOMAIN s.environment)

C10_OrderIndependentWithoutSiblings ==
  \A p \in Procs : NoSiblingReference(doc[p]) => SameAsReferenceRun(p)

C10_Witness ==
  \E p \in Procs :
    /\ Succeeded(p)
    /\ NoSiblingReference(doc[p])
    /\ DOMAIN doc[p].environment = {"A", "B"}
    /\ doc[p].cwd = <<Ref("A"), Lit("d")>>
    /\ \E j \in 1..(Len(trace[p]) - 1) :
         /\ trace[p][j].cmd = "set-environment" /\ trace[p][j].key = "B"
         /\ trace[p][j + 1].cmd = "set-environment" /\ trace[p][j + 1].key = "A"
    /\ \E j \in 1..Len(trace[p]) : trace[p][j].cmd = "new-window"

\* C11: a window whose command is empty in the document is started with the
\* interactive-shell default: the command handed to new-session (window 0)
\* or new-window (the others) is never the empty string.
C11_EmptyCommandDefaulted ==
  \A p \in Procs : \A j \in 1..Len(trace[p]) :
    LET c == trace[p][j] IN
      c.cmd \in {"new-session", "new-window"} => c.command # <<>>

\* C12: the loader returns the argument itself exactly when it names an
\* existing regular file; when the argument does not exist or is not a
\* regular file it resolves <root>/tmuxg/<name>.yaml, root being
\* $XDG_CONFIG_HOME if non-empty and $HOME/.config otherwise, returns that
\* path if it exists and fails otherwise.
C12_ConfigPath ==
  IF fs.xdg # <<>>
  THEN << <<"xdg">>, <<"tmuxg">>, <<fs.arg, ".yaml">> >>
  ELSE << <<"home">>, <<".config">>, <<"tmuxg">>, <<fs.arg, ".yaml">> >>

C12_ConfigExists ==
  (IF fs.xdg # <<>> THEN fs.xdgConf ELSE fs.homeConf) \in {"file", "dir"}

C12_LoaderResolution ==
  (located.state = "done" /\ fs.mkdirOk /\ fs.argStat \in {"file", "absent", "dir"}) =>
    IF fs.argStat = "file"
    THEN located.path = << <<fs.arg>> >> /\ located.err = ""
    ELSE IF C12_ConfigExists
         THEN located.path = C12_ConfigPath /\ located.err = ""
         ELSE located.err # ""

\* C13: set-environment calls carry distinct keys of the environment
\* mapping, come after a successful new-session and before every
\* new-window, send-keys and select-window; once create() has returned
\* without error there is exactly one per entry of the mapping; after a
\* failed new-session there is none.
IsSetEnvironment(c) == c.cmd = "set-environment"
IsAfterCreate(c) == c.cmd \in {"new-window", "send-keys", "select-window", "attach"}

CreateReturned(p) ==
  \/ pc[p] \in {"window", "keys", "focus", "attach"}
  \/ \E m \in 1..Len(trace[p]) : IsAfterCreate(trace[p][m])

C13_EnvironmentPropagated ==
  \A p \in Procs :
    LET t == trace[p]
        se == { j \in 1..Len(t) : IsSetEnvironment(t[j]) }
    IN
      /\ \A j \in se :
           /\ t[j].key \in DOMAIN doc[p].environment
           /\ \A k \in se : j # k => t[j].key # t[k].key
           /\ \E m \in 1..(j - 1) : t[m].cmd = "new-session" /\ t[m].rc = 0
           /\ \A m \in 1..Len(t) : IsAfterCreate(t[m]) => j < m
      /\ CreateReturned(p) =>
           /\ { t[j].key : j \in se } = DOMAIN doc[p].environment
           /\ \A j \in se : t[j].rc = 0
      /\ (\E m \in 1..Len(t) : t[m].cmd = "new-session" /\ t[m].rc # 0) => se = {}

C13_Witness ==
  \E p \in Procs :
    /\ Succeeded(p)
    /\ DOMAIN doc[p].environment = {"A", "B"}
    /\ Len(SelectSeq(trace[p], IsSetEnvironment)) = 2
    /\ Len(SelectSeq(trace[p], IsNewWindow)) = 2

\* C14: every window of the session, window 0 included, starts in its own
\* cwd when that is non-empty and in the session cwd otherwise, both
\* expanded.
C14_WindowStartsInItsCwd ==
  \A p \in Procs : \A l \in Labels : \A w \in srv[l].wins :
    (w.by = p /\ w.sess = doc[p].name) =>
      LET d == doc[p].windows[w.idx + 1] IN
        w.dir = ExpandEnv(IF d.cwd # <<>> THEN d.cwd ELSE doc[p].cwd, environ[p])

\* C15: when the document has no focus (the empty string), select-window
\* targets index 0, whatever the windows are named.
C15_AbsentFocusSelectsFirst ==
  \A p \in Procs :
    doc[p].focus = "" =>
      \A j \in 1..Len(trace[p]) :
        trace[p][j].cmd = "select-window" => trace[p][j].target = <<doc[p].name, 0>>

\* C16 (as claimed): attach is issued at most once, directly after a
\* successful select-window, and is the last external command; the process
\* exits with the exit code of attach.
IsAttach(c) == c.cmd = "attach"

AttachIsLast(p) ==
  LET t == trace[p] IN
    /\ Len(SelectSeq(t, IsAttach)) <= 1
    /\ \A j \in 1..Len(t) :
         t[j].cmd = "attach" =>
           /\ j = Len(t)
           /\ j > 1 /\ t[j - 1].cmd = "select-window" /\ t[j - 1].rc = 0
           /\ Finished(p)

C16_ExitCodeOfAttach ==
  \A p \in Procs :
    /\ AttachIsLast(p)
    /\ \A j \in 1..Len(trace[p]) :
         trace[p][j].cmd = "attach" => exit[p] = trace[p][j].rc

\* C16 (amended): the same, but the process exits with 0 when attach
\* exits with 0 and with 1 when attach exits with any nonzero code.
C16_ExitZeroOrOne ==
  \A p \in Procs :
    /\ AttachIsLast(p)
    /\ \A j \in 1..Len(trace[p]) :
         trace[p][j].cmd = "attach" =>
           /\ exit[p] = (IF trace[p][j].rc = 0 THEN 0 ELSE 1)
           /\ (err[p] = "") <=> (trace[p][j].rc = 0)

C16_Witness ==
  \E p \in Procs :
    /\ Finished(p)
    /\ trace[p] # <<>>
    /\ trace[p][Len(trace[p])].cmd = "attach"
    /\ trace[p][Len(trace[p])].rc = 2
    /\ exit[p] = 1

\* C17: the value of the set-environment call for key k is the value the
\* process environment holds for k.
C17_PropagatedValueIsCommittedValue ==
  \A p \in Procs : \A j \in 1..Len(trace[p]) :
    trace[p][j].cmd = "set-environment" =>
      trace[p][j].val = environ[p][trace[p][j].key]

====
